---- MODULE Spec2Model ----
(***************************************************************************)
(* Neopixel_Animations: the four frame generators of src/animations.rs     *)
(* (nmPulse, nmSnake, nmWave, nmSin) and the control loop of src/main.rs.  *)
(* Pixels are triples <<r, g, b>> of 8-bit values, a strip is a function   *)
(* 0..NUM_PX-1 -> pixel.  Accelerometer readings are in tenths (0.8 = 8).  *)
(***************************************************************************)
EXTENDS Integers, Sequences, FiniteSets, TLC

WIDTH == 8
HEIGHT == 8
NUM_PX == WIDTH * HEIGHT
NUM_SHADOWS == 7
SIN_SIZE == (14 * WIDTH) \div 8
THRESH == 8
BLANK_MODE == 5
NTICKS_INIT == 9

\* bounds of the model
MaxFrames == 130
MaxIters == 20

MaxPulseCap == 12
MaxPulseStep == 5

\* parameters nmPulse::new is given in the parametric specification
PulseCaps == (0..MaxPulseCap) \cup {250, 254, 255}
PulseSteps == (0..MaxPulseStep) \cup {128, 255}

\* base colours nmWave::new is given in the parametric specification
WaveColors == {<<c, c, c>> : c \in 0..255}

\* readings the accelerometer can deliver, per axis, in tenths
AxisValues == {-9, -8, 0, 8, 9}
ZValues == {0, 9}
Readings == AxisValues \X AxisValues \X ZValues

U8(n) == n % 256
Abs(n) == IF n < 0 THEN -n ELSE n
RGB8(r, g, b) == <<r, g, b>>
Black == RGB8(0, 0, 0)
BlankStrip == [idx \in 0..(NUM_PX - 1) |-> Black]

(***************************************************************************)
(* nmPulse                                                                 *)
(***************************************************************************)
nmPulse_new(brightness, step_size) ==
    [strip |-> BlankStrip,
     color |-> RGB8(brightness, brightness, brightness),
     px_counter |-> 0,
     descending |-> FALSE,
     step_size |-> step_size,
     brightness |-> brightness]

nmPulse_set(strip, color) == [idx \in DOMAIN strip |-> color]

nmPulse_next_overshoot(p) ==
    LET desc == IF p.px_counter <= 1 THEN FALSE
                ELSE IF p.px_counter > p.brightness THEN TRUE
                ELSE p.descending
        cnt == IF desc THEN U8(p.px_counter - p.step_size)
               ELSE U8(p.px_counter + p.step_size)
    IN [p EXCEPT !.descending = desc,
                 !.px_counter = cnt,
                 !.strip = nmPulse_set(@, RGB8(cnt, cnt, cnt))]

\* the test against brightness made before the test against 1
nmPulse_next_captest_first(p) ==
    LET desc == IF p.px_counter >= p.brightness THEN TRUE
                ELSE IF p.px_counter <= 1 THEN FALSE
                ELSE p.descending
        cnt == IF desc THEN U8(p.px_counter - p.step_size)
               ELSE U8(p.px_counter + p.step_size)
    IN [p EXCEPT !.descending = desc,
                 !.px_counter = cnt,
                 !.strip = nmPulse_set(@, RGB8(cnt, cnt, cnt))]

nmPulse_next(p) ==
    LET desc == IF p.px_counter <= 1 THEN FALSE
                ELSE IF p.px_counter >= p.brightness THEN TRUE
                ELSE p.descending
        cnt == IF desc THEN U8(p.px_counter - p.step_size)
               ELSE U8(p.px_counter + p.step_size)
    IN [p EXCEPT !.descending = desc,
                 !.px_counter = cnt,
                 !.strip = nmPulse_set(@, RGB8(cnt, cnt, cnt))]

(***************************************************************************)
(* nmSnake                                                                 *)
(***************************************************************************)
nmSnake_new(color) ==
    [strip |-> BlankStrip, color |-> color, delta |-> TRUE, row |-> 0, col |-> 0]

\* row and col exchanged in the index
nmSnake_set_transposed(s) ==
    [s EXCEPT !.strip = [idx \in DOMAIN s.strip |->
                            IF idx = s.row * WIDTH + s.col THEN s.color ELSE Black]]

nmSnake_set(s) ==
    [s EXCEPT !.strip = [idx \in DOMAIN s.strip |->
                            IF idx = s.col * WIDTH + s.row THEN s.color ELSE Black]]

nmSnake_next(s) ==
    LET d == IF s.row = WIDTH - 1 THEN FALSE
             ELSE IF s.row = 0 THEN TRUE
             ELSE s.delta
        c == IF s.row = WIDTH - 1 \/ s.row = 0 THEN (s.col + 1) % 8 ELSE s.col
        r == IF d THEN s.row + 1 ELSE s.row - 1
    IN nmSnake_set([s EXCEPT !.delta = d, !.col = c, !.row = r])

(***************************************************************************)
(* nmWave                                                                  *)
(***************************************************************************)
nmWave_new_offby(color) ==
    [strip |-> BlankStrip,
     color |-> color,
     row |-> NUM_SHADOWS,
     shadows |-> [i \in 0..(NUM_SHADOWS - 1) |-> NUM_SHADOWS - i]]

nmWave_new(color) ==
    [strip |-> BlankStrip,
     color |-> color,
     row |-> NUM_SHADOWS,
     shadows |-> [i \in 0..(NUM_SHADOWS - 1) |-> NUM_SHADOWS - 1 - i]]

\* The loop of set scans idx = 0..NUM_PX-1 with a counter col and writes where
\* idx = col*WIDTH + row.  The target never lies behind the scan position while
\* col is incremented at each hit, so the indices written are the successive
\* targets below NUM_PX; they are collected here hit by hit.
RECURSIVE nmWave_set_hits(_, _)
nmWave_set_hits(row, col) ==
    LET idx == col * WIDTH + row
    IN IF idx >= NUM_PX THEN {} ELSE {idx} \cup nmWave_set_hits(row, col + 1)

\* the index computed as row*WIDTH + col
nmWave_set_transposed(strip, row, color) ==
    LET hits == {row * WIDTH + col : col \in 0..(WIDTH - 1)}
    IN [idx \in DOMAIN strip |-> IF idx \in hits THEN color ELSE strip[idx]]

nmWave_set(strip, row, color) ==
    LET hits == nmWave_set_hits(row, 0)
    IN [idx \in DOMAIN strip |-> IF idx \in hits THEN color ELSE strip[idx]]

nmWave_clear(strip) == [idx \in DOMAIN strip |-> Black]

\* the division made by intensity_step - 1
DimSteps_div6(c, intensity_step, i) ==
    LET prod == (c \div (intensity_step - 1)) * U8(i + 1)
        diff == c - U8(prod)
        sum == U8(diff) + 1
    IN <<prod, diff, sum>>

\* c - c/intensity_step*((i+1) as u8) + 1: the results of the multiplication,
\* the subtraction and the addition before each is reduced to 8 bits
DimSteps(c, intensity_step, i) ==
    LET prod == (c \div intensity_step) * U8(i + 1)
        diff == c - U8(prod)
        sum == U8(diff) + 1
    IN <<prod, diff, sum>>

DimChannel(c, intensity_step, i) == U8(DimSteps(c, intensity_step, i)[3])

dimmed_color_flat(color, intensity_step, i) ==
    RGB8(DimChannel(color[1], intensity_step, 0),
         DimChannel(color[2], intensity_step, 0),
         DimChannel(color[3], intensity_step, 0))

dimmed_color(color, intensity_step, i) ==
    RGB8(DimChannel(color[1], intensity_step, i),
         DimChannel(color[2], intensity_step, i),
         DimChannel(color[3], intensity_step, i))

RECURSIVE nmWave_shadow_loop(_, _, _)
nmWave_shadow_loop(w, intensity_step, i) ==
    IF i > Cardinality(DOMAIN w.shadows) - 1 THEN w
    ELSE LET sh == (w.shadows[i] + 1) % WIDTH
         IN nmWave_shadow_loop(
                [w EXCEPT !.shadows[i] = sh,
                          !.strip = nmWave_set(@, sh, dimmed_color(w.color, intensity_step, i))],
                intensity_step, i + 1)

nmWave_next(w) ==
    LET row == (w.row + 1) % WIDTH
        intensity_step == U8(NUM_SHADOWS)
        drawn == [w EXCEPT !.row = row,
                           !.strip = nmWave_set(nmWave_clear(@), row, w.color)]
    IN nmWave_shadow_loop(drawn, intensity_step, 0)

(***************************************************************************)
(* nmSin                                                                   *)
(***************************************************************************)
\* f32::sin is micromath's F32Ext::sin: with t = i/SIN_SIZE turns,
\* x = t - 1/2, y = 16*x*(|x| - 1/2), sin = y + 0.225*y*(|y| - 1).
\* amplitude*sin + offset is evaluated here in exact rationals over the
\* common denominator 96040 and rounded half up: with N = d*(|d| - 7),
\* d = i - 7, sin = N*(6076 + 144*|N|)/96040.
SinValue(i) ==
    LET amplitude == HEIGHT \div 2
        offset == HEIGHT \div 2
        d == i - (SIN_SIZE \div 2)
        N == d * (Abs(d) - (SIN_SIZE \div 2))
        num == 2 * amplitude * N * (6076 + 144 * Abs(N)) + (2 * offset + 1) * 96040
    IN num \div (2 * 96040)

nmSin_new(color) ==
    LET sin == [i \in 0..(SIN_SIZE - 1) |-> SinValue(i)]
    IN [strip |-> BlankStrip,
        color |-> color,
        window |-> [i \in 0..(WIDTH - 1) |-> sin[i]],
        sin |-> sin]

\* The loop of set_row_height scans like nmWave::set, but col is incremented at
\* a hit only while col < height: after the hit with col = height the target
\* stays behind the scan position and nothing more is written.
RECURSIVE nmSin_set_row_height_hits(_, _, _)
nmSin_set_row_height_hits(row, height, col) ==
    LET idx == col * WIDTH + row
    IN IF idx >= NUM_PX THEN {}
       ELSE {idx} \cup (IF col < height
                        THEN nmSin_set_row_height_hits(row, height, col + 1)
                        ELSE {})

nmSin_set_row_height(strip, color, row, height) ==
    LET hits == nmSin_set_row_height_hits(row, height, 0)
    IN [idx \in DOMAIN strip |-> IF idx \in hits THEN color ELSE strip[idx]]

nmSin_clear(strip) == [idx \in DOMAIN strip |-> Black]

RECURSIVE nmSin_draw_loop(_, _, _, _)
nmSin_draw_loop(strip, color, window, i) ==
    IF i >= WIDTH THEN strip
    ELSE nmSin_draw_loop(
             IF window[i] # 0
             THEN nmSin_set_row_height(strip, color, i, window[i] - 1)
             ELSE strip,
             color, window, i + 1)

\* the in-place shift: entry i is overwritten before entry SIN_SIZE-1 reads entry 0
RECURSIVE nmSin_shift_loop(_, _)
nmSin_shift_loop(sin, i) ==
    IF i >= SIN_SIZE THEN sin
    ELSE nmSin_shift_loop([sin EXCEPT ![i] = sin[(i + 1) % SIN_SIZE]], i + 1)

nmSin_next(s) ==
    LET strip == nmSin_draw_loop(nmSin_clear(s.strip), s.color, s.window, 0)
        sin == nmSin_shift_loop(s.sin, 0)
    IN [s EXCEPT !.strip = strip,
                 !.sin = sin,
                 !.window = [i \in 0..(WIDTH - 1) |-> sin[i]]]

(***************************************************************************)
(* main: mode selection                                                    *)
(***************************************************************************)
\* y thresholds tested before the x thresholds
ModeSelect_yfirst(m, accel) ==
    IF accel[2] > THRESH THEN 2
    ELSE IF accel[2] < -THRESH THEN 3
    ELSE IF accel[1] > THRESH THEN 0
    ELSE IF accel[1] < -THRESH THEN 1
    ELSE m

\* a final else branch that falls back to the blank mode
ModeSelect_reset(m, accel) ==
    IF accel[1] > THRESH THEN 0
    ELSE IF accel[1] < -THRESH THEN 1
    ELSE IF accel[2] > THRESH THEN 2
    ELSE IF accel[2] < -THRESH THEN 3
    ELSE BLANK_MODE

ModeSelect(m, accel) ==
    IF accel[1] > THRESH THEN 0
    ELSE IF accel[1] < -THRESH THEN 1
    ELSE IF accel[2] > THRESH THEN 2
    ELSE IF accel[2] < -THRESH THEN 3
    ELSE m

\* wave and pulse exchanged in the match
SelectList_swapped(m, pulse, snake, wave, sin) ==
    CASE m = 0 -> pulse.strip
      [] m = 1 -> wave.strip
      [] m = 2 -> sin.strip
      [] m = 3 -> snake.strip
      [] OTHER -> BlankStrip

SelectList(m, pulse, snake, wave, sin) ==
    CASE m = 0 -> wave.strip
      [] m = 1 -> pulse.strip
      [] m = 2 -> sin.strip
      [] m = 3 -> snake.strip
      [] OTHER -> BlankStrip

\* a frame every 8 iterations instead of every 9
RenderDue_early(ticks) == ticks >= 8

\* if nticks > 8
RenderDue(ticks) == ticks > 8

(***************************************************************************)
(* State                                                                   *)
(***************************************************************************)
VARIABLES
    nm_pulse,      \* main.rs: let mut nm_pulse
    nm_snake,      \* main.rs: let mut nm_snake
    nm_wave,       \* main.rs: let mut nm_wave
    nm_sin,        \* main.rs: let mut nm_sin
    nticks,        \* main.rs: let mut nticks
    mode,          \* main.rs: let mut mode
    accel_data,    \* the reading of the current loop iteration
    ds,            \* the list last handed to neopixels.write
    nwrites,       \* history: number of calls of neopixels.write
    nframes,       \* history: number of times the generators were advanced
    iters,         \* history: number of loop iterations performed
    snakePath,     \* history: <<row, col>> of nm_snake after each advance
    sinFrames,     \* history: nm_sin's strip after each advance
    scenario_pos   \* history: how many of the first reads followed Scenario

vars == <<nm_pulse, nm_snake, nm_wave, nm_sin, nticks, mode, accel_data, ds,
          nwrites, nframes, iters, snakePath, sinFrames, scenario_pos>>

\* the reads (0.9,0,0), (0,0,0), (0,0.9,0)
Scenario == << <<9, 0, 0>>, <<0, 0, 0>>, <<0, 9, 0>> >>

NoReading == <<0, 0, 0>>

Init ==
    /\ nm_pulse = nmPulse_new(10, 1)
    /\ nm_snake = nmSnake_new(RGB8(255, 0, 0))
    /\ nm_wave = nmWave_new(RGB8(0, 0, 50))
    /\ nm_sin = nmSin_new(RGB8(0, 30, 0))
    /\ nticks = NTICKS_INIT
    /\ mode = BLANK_MODE
    /\ accel_data = NoReading
    /\ ds = BlankStrip
    /\ nwrites = 0
    /\ nframes = 0
    /\ iters = 0
    /\ snakePath = << >>
    /\ sinFrames = << >>
    /\ scenario_pos = 0

\* only the generator of the mode on display is advanced
AdvanceAll_visible ==
    /\ nm_pulse' = IF mode = 1 THEN nmPulse_next(nm_pulse) ELSE nm_pulse
    /\ nm_snake' = IF mode = 3 THEN nmSnake_next(nm_snake) ELSE nm_snake
    /\ nm_wave' = IF mode = 0 THEN nmWave_next(nm_wave) ELSE nm_wave
    /\ nm_sin' = IF mode = 2 THEN nmSin_next(nm_sin) ELSE nm_sin
    /\ nframes' = nframes + 1
    /\ snakePath' = Append(snakePath, <<nm_snake'.row, nm_snake'.col>>)
    /\ sinFrames' = Append(sinFrames, nm_sin'.strip)

\* nm_pulse.next(); nm_snake.next(); nm_wave.next(); nm_sin.next();
AdvanceAll ==
    /\ nm_pulse' = nmPulse_next(nm_pulse)
    /\ nm_snake' = nmSnake_next(nm_snake)
    /\ nm_wave' = nmWave_next(nm_wave)
    /\ nm_sin' = nmSin_next(nm_sin)
    /\ nframes' = nframes + 1
    /\ snakePath' = Append(snakePath, <<nm_snake'.row, nm_snake'.col>>)
    /\ sinFrames' = Append(sinFrames, nm_sin'.strip)

\* the generators alone, advanced in lock step
NextFrame ==
    /\ nframes < MaxFrames
    /\ AdvanceAll
    /\ UNCHANGED <<nticks, mode, accel_data, ds, nwrites, iters, scenario_pos>>

\* the mode only updated on the iterations that render
Loop_gated ==
    /\ iters < MaxIters
    /\ iters' = iters + 1
    /\ IF RenderDue(nticks)
       THEN /\ AdvanceAll
            /\ nticks' = U8(0 + 1)
       ELSE /\ nticks' = U8(nticks + 1)
            /\ UNCHANGED <<nm_pulse, nm_snake, nm_wave, nm_sin,
                           nframes, snakePath, sinFrames>>
    /\ \E reading \in Readings :
          /\ accel_data' = reading
          /\ mode' = IF RenderDue(nticks) THEN ModeSelect(mode, reading) ELSE mode
          /\ scenario_pos' = IF scenario_pos = iters /\ iters < Len(Scenario)
                                 /\ reading = Scenario[iters + 1]
                             THEN scenario_pos + 1
                             ELSE scenario_pos
    /\ ds' = IF RenderDue(nticks)
             THEN SelectList(mode', nm_pulse', nm_snake', nm_wave', nm_sin')
             ELSE ds
    /\ nwrites' = IF RenderDue(nticks) THEN nwrites + 1 ELSE nwrites

\* one iteration of the loop of main
Loop ==
    /\ iters < MaxIters
    /\ iters' = iters + 1
    /\ IF RenderDue(nticks)
       THEN /\ AdvanceAll
            /\ nticks' = U8(0 + 1)
       ELSE /\ nticks' = U8(nticks + 1)
            /\ UNCHANGED <<nm_pulse, nm_snake, nm_wave, nm_sin,
                           nframes, snakePath, sinFrames>>
    /\ \E reading \in Readings :
          /\ accel_data' = reading
          /\ mode' = ModeSelect(mode, reading)
          /\ scenario_pos' = IF scenario_pos = iters /\ iters < Len(Scenario)
                                 /\ reading = Scenario[iters + 1]
                             THEN scenario_pos + 1
                             ELSE scenario_pos
    /\ ds' = IF RenderDue(nticks)
             THEN SelectList(mode', nm_pulse', nm_snake', nm_wave', nm_sin')
             ELSE ds
    /\ nwrites' = IF RenderDue(nticks) THEN nwrites + 1 ELSE nwrites

Next == Loop

Spec == Init /\ [][Next]_vars

NextAnim == NextFrame

SpecAnim == Init /\ [][NextAnim]_vars

\* nmPulse::new with any of the parameters, everything else as in main
InitPulse ==
    /\ \E brightness \in PulseCaps, step_size \in PulseSteps :
          nm_pulse = nmPulse_new(brightness, step_size)
    /\ nm_snake = nmSnake_new(RGB8(255, 0, 0))
    /\ nm_wave = nmWave_new(RGB8(0, 0, 50))
    /\ nm_sin = nmSin_new(RGB8(0, 30, 0))
    /\ nticks = NTICKS_INIT
    /\ mode = BLANK_MODE
    /\ accel_data = NoReading
    /\ ds = BlankStrip
    /\ nwrites = 0
    /\ nframes = 0
    /\ iters = 0
    /\ snakePath = << >>
    /\ sinFrames = << >>
    /\ scenario_pos = 0

\* nm_pulse.next() alone
PulseNext ==
    /\ nm_pulse' = nmPulse_next(nm_pulse)
    /\ UNCHANGED <<nm_snake, nm_wave, nm_sin, nticks, mode, accel_data, ds,
                   nwrites, nframes, iters, snakePath, sinFrames, scenario_pos>>

NextPulse == PulseNext

SpecPulse == InitPulse /\ [][NextPulse]_vars

\* nmWave::new with any of the base colours, everything else as in main
InitWave ==
    /\ nm_pulse = nmPulse_new(10, 1)
    /\ nm_snake = nmSnake_new(RGB8(255, 0, 0))
    /\ \E color \in WaveColors : nm_wave = nmWave_new(color)
    /\ nm_sin = nmSin_new(RGB8(0, 30, 0))
    /\ nticks = NTICKS_INIT
    /\ mode = BLANK_MODE
    /\ accel_data = NoReading
    /\ ds = BlankStrip
    /\ nwrites = 0
    /\ nframes = 0
    /\ iters = 0
    /\ snakePath = << >>
    /\ sinFrames = << >>
    /\ scenario_pos = 0

\* nm_wave.next() alone
WaveNext ==
    /\ nm_wave' = nmWave_next(nm_wave)
    /\ UNCHANGED <<nm_pulse, nm_snake, nm_sin, nticks, mode, accel_data, ds,
                   nwrites, nframes, iters, snakePath, sinFrames, scenario_pos>>

NextWave == WaveNext

SpecWave == InitWave /\ [][NextWave]_vars

TypeOK ==
    /\ nm_pulse.px_counter \in 0..255
    /\ nm_snake.row \in 0..(WIDTH - 1) /\ nm_snake.col \in 0..(WIDTH - 1)
    /\ nm_wave.row \in 0..(WIDTH - 1)
    /\ \A i \in DOMAIN nm_sin.sin : nm_sin.sin[i] \in 0..HEIGHT
    /\ nticks \in 0..9
    /\ mode \in {0, 1, 2, 3, BLANK_MODE}

(***************************************************************************)
(* Properties                                                              *)
(***************************************************************************)
\* the pixel indices nmWave::set writes for a given row value
Line(row) == {col * WIDTH + row : col \in 0..(HEIGHT - 1)}

\* the table as built by nmSin::new
ConstructedTable == [i \in 0..(SIN_SIZE - 1) |-> SinValue(i)]

\* value number n (n >= 1) of the triangle wave 1,2,...,10,9,...,2,1,2,...
TriangleAt(n) ==
    LET m == (n - 1) % 18
    IN IF m < 10 THEN m + 1 ELSE 19 - m

\* C1: with brightness 10 and step 1 the counter after the n-th advance is the
\* n-th value of the triangle wave 1,2,...,10,9,...,2,1,2,..., and the counter
\* is always within 0..10.
C1_PulseTriangle ==
    /\ nm_pulse.brightness = 10 /\ nm_pulse.step_size = 1
    /\ nm_pulse.px_counter \in 0..10
    /\ nframes = 0 => nm_pulse.px_counter = 0 /\ ~nm_pulse.descending
    /\ nframes >= 1 => nm_pulse.px_counter = TriangleAt(nframes)

\* the counter has turned at 10 and again at 1 and is on its second ascent
C1_Witness ==
    nframes = 20 /\ nm_pulse.px_counter = 2 /\ ~nm_pulse.descending

\* C2: over 64 advances from (0,0) every (primary, secondary) pair is the lit
\* position exactly once, and the traversal has period 64.
C2_SnakeVisitsAll ==
    /\ nframes = 64 =>
          {snakePath[k] : k \in 1..64} = (0..(WIDTH - 1)) \X (0..(HEIGHT - 1))
    /\ nframes = 65 => snakePath[65] = snakePath[1]

\* C3: after 7 advances primary is 7; the 8th advance flips the direction to
\* descending and leaves secondary equal to 1.
C3_SnakeFirstTurn ==
    /\ nframes = 7 => nm_snake.row = 7
    /\ nframes = 8 => ~nm_snake.delta /\ nm_snake.col = 1

\* C4: shadows[i] trails the lead by i+1 steps modulo 8, so the lead and the
\* seven shadows are eight pairwise distinct line coordinates in 0..7.
C4_WaveShadowsTrail ==
    /\ \A i \in 0..(NUM_SHADOWS - 1) :
          nm_wave.shadows[i] = (nm_wave.row - (i + 1)) % 8
    /\ {nm_wave.row} \cup {nm_wave.shadows[i] : i \in 0..(NUM_SHADOWS - 1)} = 0..7

\* the lead has wrapped from 7 to 0 and shadow 0 sits at 7
C4_Witness ==
    nframes = 9 /\ nm_wave.row = 0 /\ nm_wave.shadows[0] = 7

\* C5: after every advance exactly 8 pixels have the full base colour
\* (0,0,50), all on the lead line; the other 56 pixels lie on the 7 shadow
\* lines, and the blue channel strictly decreases lead > shadow 0 > ... >
\* shadow 6.
C5_WaveTiers ==
    nframes >= 1 =>
        LET strip == nm_wave.strip
            full == {idx \in DOMAIN strip : strip[idx] = RGB8(0, 0, 50)}
            rest == DOMAIN strip \ full
        IN /\ Cardinality(full) = 8
           /\ full = Line(nm_wave.row)
           /\ Cardinality(rest) = 56
           /\ \A idx \in rest :
                 \E i \in 0..(NUM_SHADOWS - 1) : idx \in Line(nm_wave.shadows[i])
           /\ \A a \in full, b \in Line(nm_wave.shadows[0]) :
                 strip[a][3] > strip[b][3]
           /\ \A i \in 0..(NUM_SHADOWS - 2) :
                 \A a \in Line(nm_wave.shadows[i]), b \in Line(nm_wave.shadows[i + 1]) :
                     strip[a][3] > strip[b][3]

\* a frame drawn after the lead has wrapped around
C5_Witness ==
    nframes = 12 /\ nm_wave.row = 3 /\ nm_wave.strip[3] = RGB8(0, 0, 50)

\* C6: after any number of advances the stored table is a rotation of the
\* constructed table.
C6_SinTableRotation ==
    \E k \in 0..(SIN_SIZE - 1) :
        \A i \in 0..(SIN_SIZE - 1) :
            nm_sin.sin[i] = ConstructedTable[(i + k) % SIN_SIZE]

\* C7: the frame drawn by advance n shows, in column p, the constructed table
\* entry (offset + p) mod 14, offset being the number of advances before the
\* frame was drawn; a column of height h has exactly the pixels at secondary
\* coordinates 0..h-1 lit.
C7_SinColumns ==
    nframes >= 1 =>
        \A p \in 0..(WIDTH - 1) :
            LET h == ConstructedTable[((nframes - 1) + p) % SIN_SIZE]
            IN \A sec \in 0..(HEIGHT - 1) :
                  /\ sec < h => nm_sin.strip[sec * WIDTH + p] = nm_sin.color
                  /\ sec >= h => nm_sin.strip[sec * WIDTH + p] = Black

\* C8: the frames are periodic with period 14 (frame n+14 = frame n for all
\* n >= 1) and no smaller period exists.
C8_SinPeriod14 ==
    /\ \A n \in 1..(Len(sinFrames) - 14) : sinFrames[n + 14] = sinFrames[n]
    /\ Len(sinFrames) >= 28 =>
          \A q \in 1..13 :
              \E n \in 1..(Len(sinFrames) - q) : sinFrames[n + q] # sinFrames[n]

Neutral(r) == -8 <= r[1] /\ r[1] <= 8 /\ -8 <= r[2] /\ r[2] <= 8

\* the modes before any read and after each read of Scenario
ScenarioModes == <<BLANK_MODE, 0, 0, 2>>

\* C9: a reading with neither x nor y beyond the threshold leaves the mode
\* unchanged, and the reads (0.9,0,0), (0,0,0), (0,0.9,0) from the initial
\* state give the modes blank, 0, 0, 2.
C9_StickyMode ==
    /\ [](\A k \in 0..3 :
            (iters = k /\ scenario_pos = k) => mode = ScenarioModes[k + 1])
    /\ [][Neutral(accel_data') => mode' = mode]_vars

\* the three reads of the scenario have been taken
C9_Witness ==
    iters = 3 /\ scenario_pos = 3 /\ accel_data = <<0, 9, 0>> /\ mode = 2

\* C10: x > 0.8 sets mode 0 and x < -0.8 sets mode 1 whatever y is; y decides
\* (2 above 0.8, 3 below -0.8) only when x is within [-0.8, 0.8]; the mode
\* chosen does not depend on z.
C10_XPriority ==
    [][LET x == accel_data'[1]
           y == accel_data'[2]
       IN /\ x > 8 => mode' = 0
          /\ x < -8 => mode' = 1
          /\ (-8 <= x /\ x <= 8 /\ y > 8) => mode' = 2
          /\ (-8 <= x /\ x <= 8 /\ y < -8) => mode' = 3
          /\ \A z \in ZValues : ModeSelect(mode, <<x, y, z>>) = mode'
      ]_vars

\* x and y cross their thresholds together, with z non-zero, and x wins
C10_Witness ==
    accel_data = <<-9, 9, 9>> /\ mode = 1 /\ iters >= 2

\* C11: render steps (one advance of the generators and one write to the
\* pixel sink) happen exactly once every 9 loop iterations: the first
\* iteration renders, the next 8 do not, the 9th after it does, whatever the
\* readings are.
C11_RenderCadence ==
    /\ [](nframes = (iters + 8) \div 9 /\ nwrites = nframes)
    /\ [][/\ nframes' - nframes \in {0, 1}
          /\ nwrites' - nwrites = nframes' - nframes
          /\ (nframes' = nframes + 1) <=> (iters % 9 = 0)]_vars

\* the third render step, 9 iterations after the second and 18 after the first
C11_Witness ==
    iters = 19 /\ nframes = 3 /\ nwrites = 3 /\ nticks = 1

\* the generators as constructed in main and advanced k times
RECURSIVE PulseAfter(_)
PulseAfter(k) == IF k = 0 THEN nmPulse_new(10, 1) ELSE nmPulse_next(PulseAfter(k - 1))

RECURSIVE SnakeAfter(_)
SnakeAfter(k) ==
    IF k = 0 THEN nmSnake_new(RGB8(255, 0, 0)) ELSE nmSnake_next(SnakeAfter(k - 1))

RECURSIVE WaveAfter(_)
WaveAfter(k) ==
    IF k = 0 THEN nmWave_new(RGB8(0, 0, 50)) ELSE nmWave_next(WaveAfter(k - 1))

RECURSIVE SinAfter(_)
SinAfter(k) ==
    IF k = 0 THEN nmSin_new(RGB8(0, 30, 0)) ELSE nmSin_next(SinAfter(k - 1))

\* C12: after the k-th render step every generator has been advanced exactly
\* k times, whatever the readings and modes were: its state is the
\* constructed state advanced k times, so two runs with different readings
\* agree on the generators after the same number of render steps.
C12_LockStep ==
    /\ nm_pulse = PulseAfter(nframes)
    /\ nm_snake = SnakeAfter(nframes)
    /\ nm_wave = WaveAfter(nframes)
    /\ nm_sin = SinAfter(nframes)

\* two render steps with the pulse on display throughout
C12_Witness ==
    nframes = 2 /\ iters = 12 /\ mode = 1 /\ ds = nm_pulse.strip
        /\ nm_snake.row = 2 /\ nm_wave.row = 1

\* C13: the grid written at a render step is the Wave grid for mode 0, the
\* Pulse grid for mode 1, the Sine grid for mode 2, the Snake grid for mode 3
\* and an all-dark grid of 64 pixels for any other mode; while no threshold
\* has been crossed every frame written is all dark.
C13_FrameSelection ==
    /\ [](mode = BLANK_MODE =>
            \A idx \in 0..63 : ds[idx] = <<0, 0, 0>>)
    /\ [](DOMAIN ds = 0..63)
    /\ [][nwrites' = nwrites + 1 =>
            /\ mode' = 0 => ds' = nm_wave'.strip
            /\ mode' = 1 => ds' = nm_pulse'.strip
            /\ mode' = 2 => ds' = nm_sin'.strip
            /\ mode' = 3 => ds' = nm_snake'.strip
            /\ mode' \notin {0, 1, 2, 3} =>
                  \A idx \in 0..63 : ds'[idx] = <<0, 0, 0>>]_vars

\* the second frame written is the Wave grid, which differs from the others
C13_Witness ==
    nwrites = 2 /\ nticks = 1 /\ mode = 0 /\ ds = nm_wave.strip
        /\ ds # nm_pulse.strip /\ ds # BlankStrip

\* C14: with a colour other than black, after every advance exactly one
\* pixel is lit, the one at linear index secondary*8 + primary of the
\* position reached by the advance (primary is row, secondary is col), and
\* primary and secondary stay within 0..7.
C14_SnakeOneLit ==
    /\ nm_snake.row \in 0..7 /\ nm_snake.col \in 0..7
    /\ nframes >= 1 =>
          /\ {idx \in 0..63 : nm_snake.strip[idx] # <<0, 0, 0>>}
                 = {nm_snake.col * 8 + nm_snake.row}
          /\ nm_snake.strip[nm_snake.col * 8 + nm_snake.row] = nm_snake.color
          /\ nm_snake.color # <<0, 0, 0>>

\* the snake after its first turn at row 7, on the way back
C14_Witness ==
    nframes = 9 /\ nm_snake.row = 5 /\ nm_snake.col = 2 /\ ~nm_snake.delta
        /\ nm_snake.strip[21] = RGB8(255, 0, 0)

\* C15: for every brightness and step the counter stays within
\* 0..brightness, in the constructed state and after any number of advances.
C15_PulseCounterBound ==
    0 <= nm_pulse.px_counter /\ nm_pulse.px_counter <= nm_pulse.brightness

\* C20: from new(brightness, step) with brightness + step <= 255 the
\* descending branch of next() is only taken when counter >= step, the
\* counter being always a multiple of step, so counter - step never goes
\* below zero.
C20_PulseNoUnderflow ==
    /\ [](nm_pulse.brightness + nm_pulse.step_size <= 255 =>
            \E m \in 0..255 : nm_pulse.px_counter = m * nm_pulse.step_size)
    /\ [][(nm_pulse.brightness + nm_pulse.step_size <= 255 /\ nm_pulse'.descending) =>
             /\ nm_pulse.px_counter >= nm_pulse.step_size
             /\ nm_pulse'.px_counter = nm_pulse.px_counter - nm_pulse.step_size]_vars

\* new(10, 3) has overshot to 12 and taken its first step down
C20_Witness ==
    /\ nm_pulse.brightness = 10 /\ nm_pulse.step_size = 3
    /\ nm_pulse.descending /\ nm_pulse.px_counter = 9

\* reading r crosses the threshold that selects mode m
Selects(r, m) ==
    \/ m = 0 /\ r[1] > 8
    \/ m = 1 /\ r[1] < -8
    \/ m = 2 /\ r[1] <= 8 /\ r[1] >= -8 /\ r[2] > 8
    \/ m = 3 /\ r[1] <= 8 /\ r[1] >= -8 /\ r[2] < -8

\* C16: once the mode is one of 0..3 it stays in 0..3 on every later
\* iteration, whatever the readings are, and it only changes when a reading
\* crosses the threshold that selects the new mode.
C16_NoReturnToBlank ==
    [][(mode = 0 \/ mode = 1 \/ mode = 2 \/ mode = 3) =>
          (/\ mode' \in {0, 1, 2, 3}
           /\ mode' # mode => Selects(accel_data', mode'))
      ]_vars

\* mode 3 has outlived a reading that crosses no threshold
C16_Witness ==
    iters >= 2 /\ mode = 3 /\ accel_data = <<8, -8, 9>>

\* the pixels drawn in the colour of shadow i for the base colour (0,0,50)
ShadowPixels(i) ==
    {idx \in 0..63 : nm_wave.strip[idx] = <<1, 1, 51 - 7 * (i + 1)>>}

\* the pixels drawn in the full base colour (0,0,50)
LeadPixels == {idx \in 0..63 : nm_wave.strip[idx] = <<0, 0, 50>>}

C18_DimCanUnderflow ==
    \E c \in 0..255, i \in DOMAIN nm_wave.shadows :
        /\ c < 7 * (i + 1)
        /\ \E k \in 1..3 : DimSteps(c, 7, i)[k] < 0

\* C18 as amended: for every base channel value and every shadow index, also
\* when c < 7*(i+1), no step of the 8-bit computation c - (c/7)*(i+1) + 1
\* leaves 0..255, and the shadow pixels drawn carry exactly that value.
C18_DimNoUnderflow ==
    \A ch \in 1..3, i \in 0..6 :
        LET c == nm_wave.color[ch]
        IN /\ \A k \in 1..3 : DimSteps(c, 7, i)[k] \in 0..255
           /\ nm_wave.strip # BlankStrip =>
                 nm_wave.strip[nm_wave.shadows[i]][ch] = c - (c \div 7) * (i + 1) + 1

\* a base channel of 3 is below 7*(i+1) for every shadow; the last shadow is drawn
C18_Witness ==
    /\ nm_wave.color = <<3, 3, 3>>
    /\ nm_wave.row = 2
    /\ nm_wave.strip[nm_wave.shadows[6]] = <<4, 4, 4>>

\* C19: the mode is updated from the reading on every iteration, before the
\* render check: a crossing seen on an iteration that does not render
\* changes the mode at once (and writes nothing), and a render step taken on
\* a reading that crosses no threshold writes the frame of the generator of
\* the mode held since the last crossing.
C19_ModeNotGated ==
    [][LET r == accel_data'
           rendered == (nwrites' = nwrites + 1)
       IN /\ \A m \in 0..3 :
                (~rendered /\ Selects(r, m)) => (mode' = m /\ ds' = ds)
          /\ \A m \in 0..3 :
                (rendered /\ Selects(r, m)) => mode' = m
          /\ (rendered /\ Neutral(r)) =>
                /\ mode' = mode
                /\ mode = 0 => ds' = nm_wave'.strip
                /\ mode = 1 => ds' = nm_pulse'.strip
                /\ mode = 2 => ds' = nm_sin'.strip
                /\ mode = 3 => ds' = nm_snake'.strip
      ]_vars

\* mode 0 at the first render step, mode 2 from a crossing on iteration 3 or
\* later, none of which renders; the second render step, on a neutral
\* reading, writes the Sine grid
C19_Witness ==
    /\ iters = 10 /\ nwrites = 2 /\ scenario_pos = 3
    /\ accel_data = <<0, 0, 0>>
    /\ mode = 2 /\ ds = nm_sin.strip /\ ds # BlankStrip
====
